---- MODULE Spec2Model ----
(***************************************************************************)
(* Domain controller of Quip_seo_nodeJS: seven request handlers over a     *)
(* MongoDB collection "domains" and an uploads/ directory on local disk.   *)
(*                                                                         *)
(* The repository holds three revisions of the controller.  The variable   *)
(* draft says which one is loaded:                                         *)
(*   1  lines    1..477   all seven handlers, update aborts when an old    *)
(*                        file cannot be removed                           *)
(*   2  lines  479..954   all seven handlers, update only logs that        *)
(*   3  lines  956..1262  create validates title/url/description, update   *)
(*                        is a stub, no download/render                    *)
(*                                                                         *)
(* Spec, SpecV2 and SpecV3 answer one request at a time.  SpecSteps lets   *)
(* several handlers of revision 1 run at once, one await per step.         *)
(*                                                                         *)
(* Strings are sequences of characters, so that path.basename,             *)
(* path.extname, String.trim and the template literal of the upload        *)
(* file name are computed as the code computes them.                       *)
(***************************************************************************)
EXTENDS Integers, Sequences, FiniteSets, TLC

VARIABLES draft, db, nextId, disk, req, resp, served, deleted, calls

vars == <<draft, db, nextId, disk, req, resp, served, deleted, calls>>

----------------------------------------------------------------------------
(* Bounds *)

\* number of ObjectIds the store hands out (documents ever inserted)
MaxIds == 2

\* number of requests the server answers
MaxRequests == 3

\* number of requests the server handles at the same time
MaxCalls == 2

----------------------------------------------------------------------------
(* JavaScript values *)

\* a request field that was not sent
Undef == <<"#undefined">>
\* what the BSON serializer stores for undefined
Null == <<"#null">>

\* `${v}` in a template literal
Str(v) == IF v = Undef THEN <<"undefined">> ELSE IF v = Null THEN <<"null">> ELSE v

\* !v for a string-or-undefined value
Falsy(v) == v = Undef \/ v = Null \/ v = <<>>

\* a || b
Or(a, b) == IF Falsy(a) THEN b ELSE a

\* undefined is serialized as null (driver default ignoreUndefined: false)
ToBson(v) == IF v = Undef THEN Null ELSE v

RECURSIVE TrimLeft(_)
TrimLeft(s) == IF s # <<>> /\ Head(s) = " " THEN TrimLeft(Tail(s)) ELSE s

RECURSIVE TrimRight(_)
TrimRight(s) ==
    IF s # <<>> /\ s[Len(s)] = " " THEN TrimRight(SubSeq(s, 1, Len(s) - 1)) ELSE s

\* String.prototype.trim
Trim(s) == TrimRight(TrimLeft(s))

----------------------------------------------------------------------------
(* path module *)

\* index of the last occurrence of c in s, 0 when there is none
LastIndexOf(s, c) ==
    LET hits == {i \in 1..Len(s) : s[i] = c}
    IN  IF hits = {} THEN 0 ELSE CHOOSE i \in hits : \A j \in hits : j <= i

\* the last component of a path
LastComponent(p) == SubSeq(p, LastIndexOf(p, "/") + 1, Len(p))

\* path.extname(p)
extname(p) ==
    LET b == LastComponent(p)
        i == LastIndexOf(b, ".")
    IN  IF i <= 1 THEN <<>> ELSE SubSeq(b, i, Len(b))

\* path.basename(p, ext)
basename(p, ext) ==
    LET b == LastComponent(p)
        n == Len(b) - Len(ext)
    IN  IF ext # <<>> /\ n > 0 /\ SubSeq(b, n + 1, Len(b)) = ext
        THEN SubSeq(b, 1, n)
        ELSE b

\* path.join(a, b) for a directory a and a relative path b
pathJoin(a, b) == a \o <<"/">> \o b

\* the project root: __dirname/.. , also the working directory of the server
ProjectRoot == <<"/", "app">>

\* path.join(__dirname, "..", p)
FullPath(p) == pathJoin(ProjectRoot, p)

----------------------------------------------------------------------------
(* File store *)

\* fs.existsSync / fs.promises.access succeeds
existsSync(d, p) == p \in DOMAIN d

\* the file store after removing p
unlink(d, p) == [q \in (DOMAIN d) \ {p} |-> d[q]]

\* the file store after writing data at p (created or overwritten)
writeFile(d, p, data) == [q \in (DOMAIN d) \cup {p} |-> IF q = p THEN data ELSE d[q]]

----------------------------------------------------------------------------
(* Request inputs *)

\* an upload slot of the multipart form that was left empty
NoUpload == [present |-> FALSE, originalname |-> <<>>, mimetype |-> ""]

Upload(name, mime) == [present |-> TRUE, originalname |-> name, mimetype |-> mime]

Xlsx == "application/vnd.openxmlformats-officedocument.spreadsheetml.sheet"
Xls == "application/vnd.ms-excel"

\* r.x has the base name r, r.v.x has the base name r.v
MapperUploads ==
    { NoUpload,
      Upload(<<"r", ".", "x">>, Xlsx),
      Upload(<<"r", ".", "v", ".", "x">>, Xlsx) }

\* p.g is a GIF, which the upload filter refuses
ImageUploads ==
    { NoUpload,
      Upload(<<"p", ".", "j">>, "image/jpeg"),
      Upload(<<"q", ".", "j">>, "image/jpeg"),
      Upload(<<"p", ".", "g">>, "image/gif") }

\* an id string the store cannot parse as an ObjectId
BadId == -1
\* the id field missing from a request body
NoId == 0
\* a well-formed ObjectId that the store never hands out
UnknownId == MaxIds + 1
\* the upload slots whose old file the operating system refuses to remove
Slots == {"file", "image"}
Fails == SUBSET Slots

\* two clients, each with the form it normally submits to createDomain
ClientA ==
    [title |-> <<"a">>, url |-> <<"u">>, description |-> <<"d">>,
     file |-> Upload(<<"r", ".", "x">>, Xlsx),
     image |-> Upload(<<"p", ".", "j">>, "image/jpeg"), data |-> "d1"]

ClientB == [ClientA EXCEPT !.title = <<"b">>, !.data = "d2"]

\* the createDomain requests: client A's form, the same with one field
\* missing, blank or carrying another upload, and client B's form
CreateRequests ==
    {ClientA, ClientB}
    \cup {[ClientA EXCEPT !.title = t] : t \in {Undef, <<" ">>}}
    \cup {[ClientA EXCEPT !.url = <<" ">>]}
    \cup {[ClientA EXCEPT !.description = d] : d \in {Undef, <<" ">>}}
    \cup {[ClientA EXCEPT !.file = f] : f \in MapperUploads}
    \cup {[ClientA EXCEPT !.image = g] : g \in ImageUploads}

\* an updateDomain request that supplies the id and nothing else
IdOnly(id) ==
    [id |-> id, title |-> Undef, url |-> Undef, description |-> Undef,
     file |-> NoUpload, image |-> NoUpload, data |-> "d2", fail |-> {}]

StoredMappers == {up \in MapperUploads : up.present}
StoredImages == {up \in ImageUploads : up.present /\ up.mimetype = "image/jpeg"}

\* updates of the text fields: any title with or without a description, or a url
FieldUpdates(id) ==
    {[IdOnly(id) EXCEPT !.title = t, !.description = d] :
        t \in {Undef, <<"a">>, <<"b">>}, d \in {Undef, <<"e">>}}
    \cup {[IdOnly(id) EXCEPT !.url = <<"w">>]}

\* updates that carry one upload, with any title
FileUpdates(id) ==
    {[IdOnly(id) EXCEPT !.title = t, !.file = f] :
        t \in {Undef, <<"a">>, <<"b">>}, f \in StoredMappers}
    \cup {[IdOnly(id) EXCEPT !.title = t, !.image = g] :
        t \in {Undef, <<"a">>, <<"b">>}, g \in StoredImages}

\* updates during which an old file cannot be removed, and updates with both uploads
FaultyUpdates(id) ==
    {[IdOnly(id) EXCEPT !.file = f, !.fail = {"file"}] : f \in StoredMappers}
    \cup {[IdOnly(id) EXCEPT !.image = g, !.fail = {"image"}] : g \in StoredImages}
    \cup {[IdOnly(id) EXCEPT !.file = f, !.image = g, !.fail = x] :
            f \in StoredMappers, g \in StoredImages, x \in {{}, {"image"}}}

\* updates without an id, or with one the store cannot parse or never handed out
UnusableIdUpdates ==
    {[IdOnly(id) EXCEPT !.file = f] :
        id \in {NoId, BadId, UnknownId}, f \in {NoUpload, Upload(<<"r", ".", "x">>, Xlsx)}}

UpdateRequests ==
    UnusableIdUpdates
    \cup UNION {FieldUpdates(id) \cup FileUpdates(id) \cup FaultyUpdates(id) :
                  id \in 1..MaxIds}

----------------------------------------------------------------------------
(* multer configuration *)

\* fileFilter: the mimetypes that are stored
fileFilter(file) == file.mimetype \in {"image/jpeg", "image/png", Xlsx, Xls}

\* storage.filename: the name a stored upload gets
storageFilename(title, fieldname, originalname) ==
    IF fieldname = "image"
    THEN basename(originalname, <<>>)
    ELSE Str(title) \o <<"_">> \o originalname

\* an entry of req.files: absent when nothing was sent or the filter refused it
NoFile == [present |-> FALSE, filename |-> <<>>, path |-> <<>>]

multerFile(title, fieldname, up) ==
    IF up.present /\ fileFilter(up)
    THEN LET fn == storageFilename(title, fieldname, up.originalname)
         IN  [present |-> TRUE, filename |-> fn, path |-> pathJoin(<<"uploads">>, fn)]
    ELSE NoFile

\* the file store after multer stored the accepted uploads of a request
multerDisk(d, file, image, data) ==
    LET d1 == IF file.present THEN writeFile(d, FullPath(file.path), data) ELSE d
    IN  IF image.present THEN writeFile(d1, FullPath(image.path), data) ELSE d1

----------------------------------------------------------------------------
(* Record store *)

\* connection.getObjectId(id) throws for an unparseable id
getObjectIdThrows(id) == id = BadId

\* index of the first document matching { _id: id }, 0 when there is none
findOneById(docs, id) ==
    LET hits == {i \in 1..Len(docs) : docs[i]._id = id}
    IN  IF hits = {} THEN 0 ELSE CHOOSE i \in hits : \A j \in hits : i <= j

\* index of the first document matching { title }, 0 when there is none
findOneByTitle(docs, title) ==
    LET hits == {i \in 1..Len(docs) : docs[i].title = ToBson(title)}
    IN  IF hits = {} THEN 0 ELSE CHOOSE i \in hits : \A j \in hits : i <= j

\* a findOneAndDelete that matches nothing
removeAtKeeps(docs, i) == docs

\* the collection without its i-th document
removeAt(docs, i) == SubSeq(docs, 1, i - 1) \o SubSeq(docs, i + 1, Len(docs))

----------------------------------------------------------------------------
(* Responses *)

NoStatus == "none"

Json(status, message) ==
    [kind |-> "json", status |-> status, message |-> message,
     body |-> <<>>, path |-> <<>>, data |-> ""]

JsonBody(status, docs) ==
    [kind |-> "json", status |-> status, message |-> "",
     body |-> docs, path |-> <<>>, data |-> ""]

FileBytes(path, data) ==
    [kind |-> "file", status |-> NoStatus, message |-> "",
     body |-> <<>>, path |-> path, data |-> data]

\* the request being answered: the route and the id it names
Request(op, id) == [op |-> op, id |-> id]

\* one more request is taken from the network; deleted is the history of the
\* ids whose deleteDomain answered success
Served == served < MaxRequests /\ served' = served + 1 /\ UNCHANGED calls

Answered == Served /\ UNCHANGED deleted

----------------------------------------------------------------------------
(* createDomain *)

\* !v || v.trim() === ""
Blank(v) == Falsy(v) \/ Trim(v) = <<>>

\* the field checks of the third revision; "" when they pass or are not there
createValidation(dr, title, url, description) ==
    IF dr # 3 THEN ""
    ELSE IF Blank(title) THEN "title field should not be empty or null."
    ELSE IF Blank(url) THEN "url field should not be empty or null."
    ELSE IF Blank(description) THEN "description field should not be empty or null."
    ELSE ""

\* a createDomain that stores the mapper file's name with its extension
domainDataKeepsExtension(id, title, url, description, file, image) ==
    [_id |-> id,
     title |-> ToBson(title),
     url |-> ToBson(url),
     description |-> ToBson(description),
     fileName |-> file.filename,
     mapperFile_Url |-> file.path,
     imagePath |-> image.path]

\* the document createDomain inserts
domainData(id, title, url, description, file, image) ==
    [_id |-> id,
     title |-> ToBson(title),
     url |-> ToBson(url),
     description |-> ToBson(description),
     fileName |-> basename(file.filename, extname(file.filename)),
     mapperFile_Url |-> file.path,
     imagePath |-> image.path]

createDomain(title, url, description, upFile, upImage, data) ==
    LET file == multerFile(title, "file", upFile)
        image == multerFile(title, "image", upImage)
        stored == multerDisk(disk, file, image, data)
        invalid == createValidation(draft, title, url, description)
    IN  /\ Answered
        /\ req' = Request("create", NoId)
        /\ disk' = stored
        /\ UNCHANGED draft
        /\ IF ~file.present \/ ~image.present
           THEN /\ resp' = <<Json(NoStatus, "Both file and image are required")>>
                /\ UNCHANGED <<db, nextId>>
           ELSE IF invalid # ""
           THEN /\ resp' = <<Json("failed", invalid)>>
                /\ UNCHANGED <<db, nextId>>
           ELSE IF findOneByTitle(db, title) # 0
           THEN /\ resp' = <<Json("failed", "Domain already exists.")>>
                /\ UNCHANGED <<db, nextId>>
           ELSE /\ nextId <= MaxIds
                /\ db' = Append(db, domainData(nextId, title, url, description, file, image))
                /\ nextId' = nextId + 1
                /\ resp' = <<Json("success", "Domain created successfully.")>>

----------------------------------------------------------------------------
(* getDomain, getAllDomains *)

NoRequest == Request("none", NoId)

getDomain(id) ==
    LET i == findOneById(db, id)
    IN  /\ Answered
        /\ req' = Request("get", id)
        /\ resp' = IF getObjectIdThrows(id) THEN <<>>
                   ELSE IF i = 0
                   THEN <<Json("failed", "domain not found with the given id.")>>
                   ELSE <<JsonBody("success", <<db[i]>>)>>
        /\ UNCHANGED <<draft, db, nextId, disk>>

getAllDomains ==
    /\ Answered
    /\ req' = Request("list", NoId)
    /\ resp' = <<JsonBody(IF draft = 3 THEN "success" ELSE NoStatus, db)>>
    /\ UNCHANGED <<draft, db, nextId, disk>>

----------------------------------------------------------------------------
(* deleteDomain *)

\* a loop that gives up at the first path it cannot remove
RECURSIVE deleteFilesLoopStops(_, _, _)
deleteFilesLoopStops(d, paths, refused) ==
    IF paths = <<>> THEN [disk |-> d, results |-> <<>>]
    ELSE LET p == Head(paths)
             ok == existsSync(d, p) /\ p \notin refused
         IN  IF ok
             THEN LET rest == deleteFilesLoopStops(unlink(d, p), Tail(paths), refused)
                  IN  [disk |-> rest.disk,
                       results |-> <<[path |-> p, status |-> "success", error |-> ""]>>
                                   \o rest.results]
             ELSE [disk |-> d,
                   results |-> <<[path |-> p, status |-> "failed",
                                  error |-> IF existsSync(d, p) THEN "EPERM" ELSE "ENOENT"]>>]

\* the loop of deleteFiles: access, then unlink, every path in turn;
\* refused are the paths whose unlink the operating system rejects
RECURSIVE deleteFilesLoop(_, _, _)
deleteFilesLoop(d, paths, refused) ==
    IF paths = <<>> THEN [disk |-> d, results |-> <<>>]
    ELSE LET p == Head(paths)
             ok == existsSync(d, p) /\ p \notin refused
             rest == deleteFilesLoop(IF ok THEN unlink(d, p) ELSE d, Tail(paths), refused)
             result == [path |-> p,
                        status |-> IF ok THEN "success" ELSE "failed",
                        error |-> IF ok THEN ""
                                  ELSE IF existsSync(d, p) THEN "EPERM" ELSE "ENOENT"]
         IN  [disk |-> rest.disk, results |-> <<result>> \o rest.results]

\* the document is removed although deleteFiles reported a failure
fileRemovalFailedNever(response) == FALSE

\* deleteDomain's test of the outcome of deleteFiles
fileRemovalFailed(response) == response.status = "failed"

\* a deleteFiles whose allSuccess flag is never cleared
deleteFilesAlwaysSuccess(d, paths, refused) ==
    [disk |-> deleteFilesLoop(d, paths, refused).disk, status |-> "success",
     message |-> "All files successfully deleted"]

deleteFiles(d, paths, refused) ==
    LET out == deleteFilesLoop(d, paths, refused)
        failed == {i \in 1..Len(out.results) : out.results[i].status = "failed"}
        first == CHOOSE i \in failed : \A j \in failed : i <= j
    IN  IF failed = {}
        THEN [disk |-> out.disk, status |-> "success",
              message |-> "All files successfully deleted"]
        ELSE [disk |-> out.disk, status |-> "failed",
              message |-> IF out.results[first].error = "ENOENT"
                          THEN "Error deleting file: ENOENT"
                          ELSE "Error deleting file: EPERM"]

deleteDomain(id, fail) ==
    LET i == findOneById(db, id)
        domain == db[i]
        fullFilePath == FullPath(domain.mapperFile_Url)
        fullImagePath == FullPath(domain.imagePath)
        refused == (IF "file" \in fail THEN {fullFilePath} ELSE {})
                   \cup (IF "image" \in fail THEN {fullImagePath} ELSE {})
        response == deleteFiles(disk, <<fullFilePath, fullImagePath>>, refused)
    IN  /\ Served
        /\ req' = Request("delete", id)
        /\ UNCHANGED <<draft, nextId>>
        /\ IF getObjectIdThrows(id)
           THEN /\ resp' = <<>>
                /\ UNCHANGED <<db, disk, deleted>>
           ELSE IF i = 0
           THEN /\ resp' = <<Json("failed", "Domain not found with the given id.")>>
                /\ UNCHANGED <<db, disk, deleted>>
           ELSE IF fileRemovalFailed(response)
           THEN /\ resp' = <<Json("failed", response.message)>>
                /\ disk' = response.disk
                /\ UNCHANGED <<db, deleted>>
           ELSE /\ resp' = <<Json("success",
                                  "Domain and its associated files deleted successfully.")>>
                /\ disk' = response.disk
                /\ db' = removeAt(db, i)
                /\ deleted' = deleted \cup {id}

----------------------------------------------------------------------------
(* updateDomain *)

\* whether an uploaded mapper file replaces the stored one
newFileUploaded(domain, file) ==
    /\ file.present
    /\ basename(file.filename, extname(file.filename))
         # basename(domain.fileName, extname(domain.fileName))

\* whether an uploaded image replaces the stored one
newImageUploaded(domain, image) ==
    /\ image.present
    /\ basename(image.filename, extname(image.filename))
         # basename(domain.imagePath, extname(domain.imagePath))

\* { $set: updatedData } applied to the document m
setUpdatedData(m, domain, title, url, description, file, image) ==
    [m EXCEPT
       !.url = Or(url, domain.url),
       !.description = Or(description, domain.description),
       !.title = Or(title, domain.title),
       !.fileName = IF newFileUploaded(domain, file)
                    THEN basename(file.filename, extname(file.filename)) ELSE @,
       !.mapperFile_Url = IF newFileUploaded(domain, file) THEN file.path
                          ELSE IF file.present THEN domain.mapperFile_Url ELSE @,
       !.imagePath = IF newImageUploaded(domain, image) THEN image.path
                     ELSE IF image.present THEN domain.imagePath ELSE @]

\* the document updateOne writes to: the first one matching { title }
updateFilter(docs, id, title) == findOneByTitle(docs, title)

\* removal of a superseded file: error is "" when it is gone afterwards,
\* "missing" when it was not there, "unlink" when unlinkSync threw
removeOld(d, adopted, old, refused) ==
    IF ~adopted \/ Falsy(old) THEN [disk |-> d, error |-> ""]
    ELSE IF ~existsSync(d, FullPath(old)) THEN [disk |-> d, error |-> "missing"]
    ELSE IF refused THEN [disk |-> d, error |-> "unlink"]
    ELSE [disk |-> unlink(d, FullPath(old)), error |-> ""]

\* an updateDomain that only logs the failure to remove an old file
abortsOnRemoveErrorNever(dr) == FALSE

\* revision 1 sends a failure when an old file cannot be removed, revision 2 logs it
abortsOnRemoveError(dr) == dr = 1

\* the status field of the answers that revision 2 sends without one
errorStatus(dr) == IF dr = 1 THEN "failed" ELSE NoStatus

updateDomainUpload(id, title, url, description, upFile, upImage, data, fail) ==
    LET file == multerFile(title, "file", upFile)
        image == multerFile(title, "image", upImage)
        stored == multerDisk(disk, file, image, data)
        i == findOneById(db, id)
        domain == db[i]
        afterFile == removeOld(stored, newFileUploaded(domain, file),
                               domain.mapperFile_Url, "file" \in fail)
        fileError == abortsOnRemoveError(draft) /\ afterFile.error # ""
        afterImage == removeOld(afterFile.disk, newImageUploaded(domain, image),
                                domain.imagePath, "image" \in fail)
        imageError == abortsOnRemoveError(draft) /\ afterImage.error # ""
        j == updateFilter(db, id, title)
    IN  /\ draft \in {1, 2}
        /\ Answered
        /\ req' = Request("update", id)
        /\ UNCHANGED <<draft, nextId>>
        /\ IF id = NoId
           THEN /\ resp' = <<Json(errorStatus(draft), "id is required to update the domain.")>>
                /\ disk' = stored
                /\ UNCHANGED db
           ELSE IF getObjectIdThrows(id)
           THEN /\ resp' = <<Json(errorStatus(draft), "Server error")>>
                /\ disk' = stored
                /\ UNCHANGED db
           ELSE IF i = 0
           THEN /\ resp' = <<Json("failed", "Domain not found with the given id.")>>
                /\ disk' = stored
                /\ UNCHANGED db
           ELSE IF fileError
           THEN /\ resp' = <<Json("failed", IF afterFile.error = "missing"
                                            THEN "Old file does not exist."
                                            ELSE "Error deleting old file.")>>
                /\ disk' = afterFile.disk
                /\ UNCHANGED db
           ELSE IF imageError
           THEN /\ resp' = <<Json("failed", IF afterImage.error = "missing"
                                            THEN "Old image does not exist."
                                            ELSE "Error deleting old image.")>>
                /\ disk' = afterImage.disk
                /\ UNCHANGED db
           ELSE /\ resp' = <<Json("success", "Domain updated successfully.")>>
                /\ disk' = afterImage.disk
                /\ db' = IF j = 0 THEN db
                         ELSE [db EXCEPT ![j] = setUpdatedData(db[j], domain, title, url,
                                                               description, file, image)]

\* the third revision: reads the body, answers only when the domain is not found
updateDomainStub(id) ==
    /\ draft = 3
    /\ Answered
    /\ req' = Request("update", id)
    /\ resp' = IF getObjectIdThrows(id) \/ findOneById(db, id) # 0
               THEN <<>>
               ELSE <<Json("failed", "domain not found with the given id")>>
    /\ UNCHANGED <<draft, db, nextId, disk>>

----------------------------------------------------------------------------
(* downloadMapperFile, renderImage *)

\* a download that looks for the image instead of the mapper file
downloadPathOfImage(domain) == FullPath(domain.imagePath)

\* the file downloadMapperFile sends
downloadPath(domain) == FullPath(domain.mapperFile_Url)

downloadMapperFile(id) ==
    LET i == findOneById(db, id)
        filePath == downloadPath(db[i])
    IN  /\ draft \in {1, 2}
        /\ Answered
        /\ req' = Request("download", id)
        /\ resp' = IF getObjectIdThrows(id)
                   THEN <<Json("failed", "Server error")>>
                   ELSE IF i = 0
                   THEN <<Json("failed", "Domain not found.")>>
                   ELSE IF ~existsSync(disk, filePath)
                   THEN <<Json("failed", "File not found on the server.")>>
                   ELSE <<FileBytes(filePath, disk[filePath])>>
        /\ UNCHANGED <<draft, db, nextId, disk>>

\* the catch block reads error.message: error is unbound in revision 1 (the
\* handler dies with a ReferenceError) and console.error in revision 2
renderImage(id) ==
    LET i == findOneById(db, id)
        imagePath == FullPath(db[i].imagePath)
    IN  /\ draft \in {1, 2}
        /\ Answered
        /\ req' = Request("render", id)
        /\ resp' = IF getObjectIdThrows(id)
                   THEN IF draft = 1 THEN <<>> ELSE <<Json("failed", "error occured")>>
                   ELSE IF i = 0
                   THEN <<Json("failed", IF draft = 1 THEN "Domain not found with given id."
                                         ELSE "Domain not found.")>>
                   ELSE IF ~existsSync(disk, imagePath)
                   THEN <<Json("failed", "Image not found on the server.")>>
                   ELSE <<FileBytes(imagePath, disk[imagePath])>>
        /\ UNCHANGED <<draft, db, nextId, disk>>

----------------------------------------------------------------------------
(* Specification *)

\* the revision of the controller that is loaded
Init ==
    /\ draft = 1
    /\ db = <<>>
    /\ nextId = 1
    /\ disk = [p \in {} |-> ""]
    /\ req = NoRequest
    /\ resp = <<>>
    /\ served = 0
    /\ deleted = {}
    /\ calls = <<>>

\* the ids a client can name: those handed out so far, one never handed out,
\* and a string that is no ObjectId
IssuedIds == 1..(nextId - 1)
KnownIds == IssuedIds \cup {UnknownId, BadId}

Create ==
    \E r \in CreateRequests :
        createDomain(r.title, r.url, r.description, r.file, r.image, r.data)

Get == \E id \in KnownIds : getDomain(id)

List == getAllDomains

Delete == \E id \in KnownIds, fail \in Fails : deleteDomain(id, fail)

Update ==
    \E r \in {q \in UpdateRequests : q.id \in KnownIds \cup {NoId}} :
        updateDomainUpload(r.id, r.title, r.url, r.description, r.file, r.image,
                           r.data, r.fail)

UpdateStub == \E id \in KnownIds : updateDomainStub(id)

Download == \E id \in KnownIds : downloadMapperFile(id)

Render == \E id \in KnownIds : renderImage(id)

Next ==
    \/ Create
    \/ Get
    \/ List
    \/ Delete
    \/ Update
    \/ Download
    \/ Render

Spec == Init /\ [][Next]_vars

\* the second revision of the controller
InitV2 == Init!2 /\ Init!3 /\ Init!4 /\ Init!5 /\ Init!6 /\ Init!7 /\ Init!8 /\ Init!9 /\ draft = 2

SpecV2 == InitV2 /\ [][Next]_vars

\* the third revision: five handlers, updateDomain a stub
InitV3 == Init!2 /\ Init!3 /\ Init!4 /\ Init!5 /\ Init!6 /\ Init!7 /\ Init!8 /\ Init!9 /\ draft = 3

NextV3 ==
    \/ Create
    \/ Get
    \/ List
    \/ Delete
    \/ UpdateStub

SpecV3 == InitV3 /\ [][NextV3]_vars

----------------------------------------------------------------------------
(* Handlers in flight: every await of a handler is a separate step *)

\* the events of each handler at the file store, the record store and the
\* socket, in the order of the source
createProgram == <<"upload", "findOne", "insertOne", "respond">>

updateProgram == <<"upload", "findOne", "removeOld", "updateOne", "respond">>

\* a deleteDomain that does not await deleteFiles
deleteProgramNoAwait ==
    <<"findOne", "findOneAndDelete", "respond", "unlinkFile", "unlinkImage">>

deleteProgram == <<"findOne", "unlinkFile", "unlinkImage", "findOneAndDelete", "respond">>

Program(op) ==
    CASE op = "create" -> createProgram
      [] op = "update" -> updateProgram
      [] op = "delete" -> deleteProgram

\* a handler invocation: its request r, its place pc in the program, the
\* document it read, the answer it has decided on (out) and the answers it has
\* sent (resp), and what it has done: free (its title lookup found nothing),
\* error (the removal of an old file failed), wrote (it changed the record
\* store), results (of deleteFiles)
NewCall(op, r) ==
    [op |-> op, r |-> r, pc |-> 1, domain |-> <<>>, out |-> <<>>, resp |-> <<>>,
     free |-> FALSE, error |-> "", wrote |-> FALSE, results |-> <<>>]

\* the event a call is waiting for; "end" when the handler has returned
Label(k) == IF k.pc <= Len(Program(k.op)) THEN Program(k.op)[k.pc] ELSE "end"

\* the handler goes on to its next event
Go(k) == [k EXCEPT !.pc = k.pc + 1]

\* the handler returns res.json(answer): nothing but the response is left of it
Decide(k, answer) ==
    LET prog == Program(k.op)
        later == {i \in (k.pc + 1)..Len(prog) : prog[i] = "respond"}
    IN  [k EXCEPT !.out = <<answer>>,
                  !.pc = IF later = {} THEN Len(prog) + 1
                         ELSE CHOOSE i \in later : \A j \in later : i <= j]

\* an exception leaves a handler that has no try/catch
Throw(k) == [k EXCEPT !.pc = Len(Program(k.op)) + 1]

\* an insertOne into a collection with a unique index on title
insertOneUnique(docs, doc) ==
    IF \E i \in 1..Len(docs) : docs[i].title = doc.title THEN docs ELSE Append(docs, doc)

\* domainsCollection.insertOne
insertOne(docs, doc) == Append(docs, doc)

\* the requests that arrive while others are in flight
CreateCalls ==
    {[IdOnly(NoId) EXCEPT !.title = c.title, !.url = c.url, !.description = c.description,
                          !.file = c.file, !.image = c.image, !.data = c.data] :
        c \in {ClientA, ClientB}}

UpdateCalls ==
    {[IdOnly(1) EXCEPT !.file = Upload(<<"r", ".", "x">>, Xlsx), !.fail = x] :
        x \in {{}, {"file"}}}
    \cup {[IdOnly(1) EXCEPT !.file = Upload(<<"r", ".", "x">>, Xlsx),
                            !.image = Upload(<<"q", ".", "j">>, "image/jpeg"),
                            !.fail = {"image"}]}
    \cup {[IdOnly(1) EXCEPT !.description = <<"e">>]}

DeleteCalls == {[IdOnly(1) EXCEPT !.fail = x] : x \in {{}, {"file"}}} \cup {IdOnly(BadId)}

Arrive(op, r) ==
    /\ Len(calls) < MaxCalls
    /\ calls' = Append(calls, NewCall(op, r))
    /\ UNCHANGED <<draft, db, nextId, disk, req, resp, served, deleted>>

ArriveCreate == \E r \in CreateCalls : Arrive("create", r)
ArriveUpdate == \E r \in UpdateCalls : Arrive("update", r)
ArriveDelete == \E r \in DeleteCalls : Arrive("delete", r)

\* multer stores the uploads, then the handler's callback starts
StepUpload(c) ==
    LET k == calls[c]
        file == multerFile(k.r.title, "file", k.r.file)
        image == multerFile(k.r.title, "image", k.r.image)
        invalid == createValidation(draft, k.r.title, k.r.url, k.r.description)
    IN  /\ Label(k) = "upload"
        /\ disk' = multerDisk(disk, file, image, k.r.data)
        /\ calls' = [calls EXCEPT ![c] =
              IF k.op = "create"
              THEN IF ~file.present \/ ~image.present
                   THEN Decide(k, Json(NoStatus, "Both file and image are required"))
                   ELSE IF invalid # "" THEN Decide(k, Json("failed", invalid))
                   ELSE Go(k)
              ELSE IF k.r.id = NoId
                   THEN Decide(k, Json(errorStatus(draft),
                                       "id is required to update the domain."))
                   ELSE Go(k)]
        /\ UNCHANGED <<draft, db, nextId, req, resp, served, deleted>>

\* the record store answers the handler's findOne
StepFindOne(c) ==
    LET k == calls[c]
        i == findOneById(db, k.r.id)
    IN  /\ Label(k) = "findOne"
        /\ calls' = [calls EXCEPT ![c] =
              IF k.op = "create"
              THEN IF findOneByTitle(db, k.r.title) # 0
                   THEN Decide(k, Json("failed", "Domain already exists."))
                   ELSE Go([k EXCEPT !.free = TRUE])
              ELSE IF getObjectIdThrows(k.r.id)
                   THEN IF k.op = "update"
                        THEN Decide(k, Json(errorStatus(draft), "Server error"))
                        ELSE Throw(k)
              ELSE IF i = 0
                   THEN Decide(k, Json("failed", "Domain not found with the given id."))
              ELSE Go([k EXCEPT !.domain = <<db[i]>>])]
        /\ UNCHANGED <<draft, db, nextId, disk, req, resp, served, deleted>>

\* the record store runs createDomain's insertOne
StepInsertOne(c) ==
    LET k == calls[c]
        file == multerFile(k.r.title, "file", k.r.file)
        image == multerFile(k.r.title, "image", k.r.image)
        docs == insertOne(db, domainData(nextId, k.r.title, k.r.url, k.r.description,
                                         file, image))
    IN  /\ Label(k) = "insertOne"
        /\ db' = docs
        /\ nextId' = nextId + 1
        /\ calls' = [calls EXCEPT ![c] =
              Decide([k EXCEPT !.wrote = docs # db],
                     Json("success", "Domain created successfully."))]
        /\ UNCHANGED <<draft, disk, req, resp, served, deleted>>

\* deleteFiles tries one path; after the last one deleteDomain looks at the outcome
StepUnlink(c) ==
    LET k == calls[c]
        domain == k.domain[1]
        slot == IF Label(k) = "unlinkFile" THEN "file" ELSE "image"
        p == FullPath(IF slot = "file" THEN domain.mapperFile_Url ELSE domain.imagePath)
        out == deleteFilesLoop(disk, <<p>>, IF slot \in k.r.fail THEN {p} ELSE {})
        results == k.results \o out.results
        failed == {i \in 1..Len(results) : results[i].status = "failed"}
        first == CHOOSE i \in failed : \A j \in failed : i <= j
        last == Label(k) = "unlinkImage"
    IN  /\ Label(k) \in {"unlinkFile", "unlinkImage"}
        /\ k.domain # <<>>
        /\ disk' = out.disk
        /\ calls' = [calls EXCEPT ![c] =
              IF last /\ failed # {}
              THEN Decide([k EXCEPT !.results = results],
                          Json("failed", IF results[first].error = "ENOENT"
                                         THEN "Error deleting file: ENOENT"
                                         ELSE "Error deleting file: EPERM"))
              ELSE Go([k EXCEPT !.results = results])]
        /\ UNCHANGED <<draft, db, nextId, req, resp, served, deleted>>

\* the record store runs deleteDomain's findOneAndDelete
StepFindOneAndDelete(c) ==
    LET k == calls[c]
        i == findOneById(db, k.r.id)
    IN  /\ Label(k) = "findOneAndDelete"
        /\ db' = IF i = 0 THEN db ELSE removeAt(db, i)
        /\ calls' = [calls EXCEPT ![c] =
              IF i = 0
              THEN Decide(k, Json("failed", "Error deleting the domain document."))
              ELSE Decide([k EXCEPT !.wrote = TRUE],
                          Json("success",
                               "Domain and its associated files deleted successfully."))]
        /\ UNCHANGED <<draft, nextId, disk, req, resp, served, deleted>>

\* updateDomain removes the files it replaces, synchronously
StepRemoveOld(c) ==
    LET k == calls[c]
        domain == k.domain[1]
        file == multerFile(k.r.title, "file", k.r.file)
        image == multerFile(k.r.title, "image", k.r.image)
        afterFile == removeOld(disk, newFileUploaded(domain, file),
                               domain.mapperFile_Url, "file" \in k.r.fail)
        fileError == abortsOnRemoveError(draft) /\ afterFile.error # ""
        afterImage == removeOld(afterFile.disk, newImageUploaded(domain, image),
                                domain.imagePath, "image" \in k.r.fail)
        imageError == abortsOnRemoveError(draft) /\ afterImage.error # ""
    IN  /\ Label(k) = "removeOld"
        /\ disk' = IF fileError THEN afterFile.disk ELSE afterImage.disk
        /\ calls' = [calls EXCEPT ![c] =
              IF fileError
              THEN Decide([k EXCEPT !.error = afterFile.error],
                          Json("failed", IF afterFile.error = "missing"
                                         THEN "Old file does not exist."
                                         ELSE "Error deleting old file."))
              ELSE IF imageError
              THEN Decide([k EXCEPT !.error = afterImage.error],
                          Json("failed", IF afterImage.error = "missing"
                                         THEN "Old image does not exist."
                                         ELSE "Error deleting old image."))
              ELSE Go([k EXCEPT !.error = IF afterFile.error # "" THEN afterFile.error
                                          ELSE afterImage.error])]
        /\ UNCHANGED <<draft, db, nextId, req, resp, served, deleted>>

\* the record store runs updateDomain's updateOne
StepUpdateOne(c) ==
    LET k == calls[c]
        domain == k.domain[1]
        file == multerFile(k.r.title, "file", k.r.file)
        image == multerFile(k.r.title, "image", k.r.image)
        j == updateFilter(db, k.r.id, k.r.title)
    IN  /\ Label(k) = "updateOne"
        /\ db' = IF j = 0 THEN db
                 ELSE [db EXCEPT ![j] = setUpdatedData(db[j], domain, k.r.title, k.r.url,
                                                       k.r.description, file, image)]
        /\ calls' = [calls EXCEPT ![c] =
              Decide([k EXCEPT !.wrote = TRUE],
                     Json("success", "Domain updated successfully."))]
        /\ UNCHANGED <<draft, nextId, disk, req, resp, served, deleted>>

\* res.json: the answer the handler decided on goes out
StepRespond(c) ==
    LET k == calls[c]
    IN  /\ Label(k) = "respond"
        /\ calls' = [calls EXCEPT ![c] = Go([k EXCEPT !.resp = k.resp \o k.out,
                                                      !.out = <<>>])]
        /\ UNCHANGED <<draft, db, nextId, disk, req, resp, served, deleted>>

\* the server holds the domain of client A when the requests arrive
InitSteps ==
    LET file == multerFile(ClientA.title, "file", ClientA.file)
        image == multerFile(ClientA.title, "image", ClientA.image)
    IN  /\ draft = 1
        /\ db = <<domainData(1, ClientA.title, ClientA.url, ClientA.description,
                             file, image)>>
        /\ nextId = 2
        /\ disk = multerDisk(Init!4!2, file, image, ClientA.data)
        /\ req = NoRequest
        /\ resp = <<>>
        /\ served = 0
        /\ deleted = {}
        /\ calls = <<>>

NextSteps ==
    \/ ArriveCreate
    \/ ArriveUpdate
    \/ ArriveDelete
    \/ \E c \in DOMAIN calls : StepUpload(c)
    \/ \E c \in DOMAIN calls : StepFindOne(c)
    \/ \E c \in DOMAIN calls : StepInsertOne(c)
    \/ \E c \in DOMAIN calls : StepUnlink(c)
    \/ \E c \in DOMAIN calls : StepFindOneAndDelete(c)
    \/ \E c \in DOMAIN calls : StepRemoveOld(c)
    \/ \E c \in DOMAIN calls : StepUpdateOne(c)
    \/ \E c \in DOMAIN calls : StepRespond(c)

SpecSteps == InitSteps /\ [][NextSteps]_vars

----------------------------------------------------------------------------
(* Vocabulary of the properties *)

\* the ids of the documents in the record store
DocIds(docs) == {docs[i]._id : i \in 1..Len(docs)}

\* a stored relative path names a file that is on disk
OnDisk(d, p) == existsSync(d, FullPath(p))

\* the uploads of a request that the filter lets through
Accepted(up) == up.present /\ fileFilter(up)

Success(message) == <<Json("success", message)>>
Failed(message) == <<Json("failed", message)>>

\* the step answers the createDomain request r
IsCreate(r) ==
    /\ req' = Request("create", NoId)
    /\ createDomain(r.title, r.url, r.description, r.file, r.image, r.data)

\* the step answers the updateDomain request r
IsUpdate(r) ==
    /\ req' = Request("update", r.id)
    /\ updateDomainUpload(r.id, r.title, r.url, r.description, r.file, r.image,
                          r.data, r.fail)

\* the step answers a request to the route op that names id
IsRequest(op, id) == req' = Request(op, id) /\ served' = served + 1

----------------------------------------------------------------------------
(* C1 *)

\* C1: in every reachable state every document of the record store has its
\* mapper file on disk at mapperFile_Url and its image on disk at imagePath.
C1_FilesPresent ==
    \A i \in 1..Len(db) :
        OnDisk(disk, db[i].mapperFile_Url) /\ OnDisk(disk, db[i].imagePath)

----------------------------------------------------------------------------
(* C2 *)

\* C2: requests run one at a time; in every reachable state no two documents
\* of the record store have the same title.
C2_UniqueTitles ==
    \A i, j \in 1..Len(db) : db[i].title = db[j].title => i = j

----------------------------------------------------------------------------
(* C3 *)

\* the form r is complete: both uploads are of a stored type and title, url
\* and description are not blank
Complete(r) ==
    /\ Accepted(r.file) /\ Accepted(r.image)
    /\ ~Blank(r.title) /\ ~Blank(r.url) /\ ~Blank(r.description)

\* where the uploads of the form r are kept: uploads/{title}_{name}, uploads/{name}
MapperPathOf(r) == <<"uploads", "/">> \o r.title \o <<"_">> \o r.file.originalname
ImagePathOf(r) == <<"uploads", "/">> \o r.image.originalname

\* the document with the id in docs
DocOf(docs, id) == docs[findOneById(docs, id)]

\* createDomain with a complete form and an unused title answers success and
\* appends one document that holds the form
C3_CreateStep ==
    \A r \in CreateRequests :
        (IsCreate(r) /\ Complete(r) /\ findOneByTitle(db, r.title) = 0) =>
            /\ resp' = Success("Domain created successfully.")
            /\ Len(db') = Len(db) + 1
            /\ SubSeq(db', 1, Len(db)) = db
            /\ LET doc == db'[Len(db')]
               IN  /\ doc._id \notin DocIds(db)
                   /\ doc.title = r.title
                   /\ doc.url = r.url
                   /\ doc.description = r.description
                   /\ doc.mapperFile_Url = MapperPathOf(r)
                   /\ doc.imagePath = ImagePathOf(r)
                   /\ doc.fileName = basename(MapperPathOf(r), extname(MapperPathOf(r)))
                   /\ OnDisk(disk', doc.mapperFile_Url)
                   /\ OnDisk(disk', doc.imagePath)
                   /\ disk'[FullPath(doc.mapperFile_Url)] = r.data
                   /\ disk'[FullPath(doc.imagePath)] = r.data

\* getDomain of a document in the store answers success with that document
C3_GetStep ==
    \A id \in KnownIds :
        (IsRequest("get", id) /\ getDomain(id) /\ id \in DocIds(db)) =>
            resp' = <<JsonBody("success", <<DocOf(db, id)>>)>>

\* C3: a Create with an unused title, both files and non-blank title, url and
\* description answers success and inserts exactly one document; a Get of it
\* returns the submitted title, url and description, the mapper file's base
\* name without extension as fileName, and the paths of the two stored files.
C3_CreateThenGet ==
    [][/\ req'.op = "create" => C3_CreateStep
       /\ req'.op = "get" => C3_GetStep]_vars

\* client A's domain was created and then fetched
C3_Witness ==
    /\ req = Request("get", 1)
    /\ resp = <<JsonBody("success",
                  <<[_id |-> 1, title |-> <<"a">>, url |-> <<"u">>, description |-> <<"d">>,
                     fileName |-> <<"a", "_", "r">>,
                     mapperFile_Url |-> <<"uploads", "/", "a", "_", "r", ".", "x">>,
                     imagePath |-> <<"uploads", "/", "p", ".", "j">>]>>)>>
    /\ OnDisk(disk, <<"uploads", "/", "a", "_", "r", ".", "x">>)
    /\ OnDisk(disk, <<"uploads", "/", "p", ".", "j">>)

----------------------------------------------------------------------------
(* C4 *)

\* C4: a Create whose title an existing domain has fails with the conflict
\* answer, inserts no document, and adds or overwrites no file.
C4_ConflictWritesNothing ==
    [][\A r \in CreateRequests :
          (IsCreate(r) /\ Accepted(r.file) /\ Accepted(r.image)
                       /\ findOneByTitle(db, r.title) # 0) =>
              /\ resp' = Failed("Domain already exists.")
              /\ db' = db
              /\ disk' = disk]_vars

----------------------------------------------------------------------------
(* C5 *)

\* C5: a Create in which title, url or description is missing or blank after
\* trimming answers with status failed, inserts no document and writes no file.
C5_BlankFieldRejected ==
    [][\A r \in CreateRequests :
          (IsCreate(r) /\ (Blank(r.title) \/ Blank(r.url) \/ Blank(r.description))) =>
              /\ Len(resp') = 1
              /\ resp'[1].status = "failed"
              /\ db' = db
              /\ disk' = disk]_vars

----------------------------------------------------------------------------
(* C6 *)

\* a field of the stored document after an update that may supply it
Merged(supplied, prior) == IF supplied = Undef THEN prior ELSE supplied

\* a successful update of an existing domain sets the supplied title, url and
\* description, keeps the omitted ones, and keeps the files of an empty slot
C6_Frame ==
    \A r \in UpdateRequests :
        (IsUpdate(r) /\ r.id \in DocIds(db)
                     /\ resp' = Success("Domain updated successfully.")) =>
            LET old == DocOf(db, r.id)
                new == DocOf(db', r.id)
            IN  /\ DocIds(db') = DocIds(db)
                /\ new.title = Merged(r.title, old.title)
                /\ new.url = Merged(r.url, old.url)
                /\ new.description = Merged(r.description, old.description)
                /\ ~r.file.present =>
                      /\ new.fileName = old.fileName
                      /\ new.mapperFile_Url = old.mapperFile_Url
                /\ ~r.image.present => new.imagePath = old.imagePath

\* an update with only id and description succeeds and changes the description
C6_DescriptionOnly ==
    \A id \in DocIds(db) :
        IsUpdate([IdOnly(id) EXCEPT !.description = <<"e">>]) =>
            /\ resp' = Success("Domain updated successfully.")
            /\ DocOf(db', id) = [DocOf(db, id) EXCEPT !.description = <<"e">>]

\* C6: a successful Update changes exactly the fields and files the request
\* supplies; an Update with only id and description returns success, sets the
\* description and leaves title, url, fileName, mapperFile_Url, imagePath.
C6_PartialUpdate == [][req'.op = "update" => C6_Frame /\ C6_DescriptionOnly]_vars

----------------------------------------------------------------------------
(* C7 *)

\* C7: after a successful Update that supplies a mapper file: when its base
\* name differs from the stored fileName, mapperFile_Url is the new file's
\* path and the old mapper file is off disk; when the base names are equal,
\* mapperFile_Url is unchanged.
C7_MapperReplaced ==
    [][req'.op = "update" =>
        \A r \in UpdateRequests :
            (IsUpdate(r) /\ r.id \in DocIds(db) /\ Accepted(r.file)
                         /\ resp' = Success("Domain updated successfully.")) =>
                LET old == DocOf(db, r.id)
                    new == DocOf(db', r.id)
                    file == multerFile(r.title, "file", r.file)
                IN  IF basename(file.filename, extname(file.filename)) # old.fileName
                    THEN /\ new.mapperFile_Url = file.path
                         /\ ~OnDisk(disk', old.mapperFile_Url)
                    ELSE new.mapperFile_Url = old.mapperFile_Url]_vars

----------------------------------------------------------------------------
(* C8 *)

DeleteSuccess == Success("Domain and its associated files deleted successfully.")

\* a Delete that answers success named an existing domain, whose two files
\* and whose document are gone afterwards
C8_DeleteStep ==
    (req'.op = "delete" /\ served' = served + 1 /\ resp' = DeleteSuccess) =>
        /\ req'.id \in DocIds(db)
        /\ ~OnDisk(disk', DocOf(db, req'.id).mapperFile_Url)
        /\ ~OnDisk(disk', DocOf(db, req'.id).imagePath)
        /\ req'.id \notin DocIds(db')
        /\ req'.id \in deleted'

\* the deleted ids have no document, and a Get that names one is answered not found
C8_Later ==
    /\ deleted \cap DocIds(db) = {}
    /\ (req.op = "get" /\ req.id \in deleted) =>
           resp = Failed("domain not found with the given id.")

\* C8: after a Delete of an existing domain returns success, its mapper file
\* and image are off disk and its document is out of the record store, and
\* every later Get with that id returns the not-found failure.
C8_DeleteThenGet == [][C8_DeleteStep /\ C8_Later']_vars

\* a domain was created, deleted, and then asked for
C8_Witness ==
    /\ req = Request("get", 1)
    /\ 1 \in deleted
    /\ resp = Failed("domain not found with the given id.")

----------------------------------------------------------------------------
(* C9 *)

\* C9: a List returns every document of the record store exactly once and no
\* document that has been deleted.
C9_ListComplete ==
    req.op = "list" =>
        /\ Len(resp) = 1
        /\ resp[1].kind = "json"
        /\ \A i \in 1..Len(db) :
               Cardinality({k \in 1..Len(resp[1].body) : resp[1].body[k] = db[i]}) = 1
        /\ \A k \in 1..Len(resp[1].body) :
               /\ resp[1].body[k]._id \in DocIds(db)
               /\ resp[1].body[k]._id \notin deleted

\* two domains were created and then listed
C9_Witness ==
    /\ req.op = "list"
    /\ Len(db) = 2
    /\ Len(resp[1].body) = 2
    /\ {resp[1].body[1]._id, resp[1].body[2]._id} = {1, 2}

----------------------------------------------------------------------------
(* C10 *)

\* C10: a Download or Render for an existing document whose mapper file (for
\* Download) or image (for Render) is off disk answers with the failure that
\* says the file is missing, sends no bytes, and changes neither store.
C10_MissingFile ==
    [][/\ (req'.op = "download" /\ served' = served + 1 /\ req'.id \in DocIds(db)
             /\ ~OnDisk(disk, DocOf(db, req'.id).mapperFile_Url)) =>
               /\ resp' = Failed("File not found on the server.")
               /\ db' = db /\ disk' = disk
       /\ (req'.op = "render" /\ served' = served + 1 /\ req'.id \in DocIds(db)
             /\ ~OnDisk(disk, DocOf(db, req'.id).imagePath)) =>
               /\ resp' = Failed("Image not found on the server.")
               /\ db' = db /\ disk' = disk]_vars

\* a download was asked for a domain whose mapper file is gone while its image is there
C10_Witness ==
    /\ req.op = "download"
    /\ req.id \in DocIds(db)
    /\ ~OnDisk(disk, DocOf(db, req.id).mapperFile_Url)
    /\ OnDisk(disk, DocOf(db, req.id).imagePath)
    /\ resp = Failed("File not found on the server.")

----------------------------------------------------------------------------
(* C11 *)

\* an answer that reports neither success nor content: a json payload that
\* carries a message and no status "success"
IsFailure(a) == a.kind = "json" /\ a.message # "" /\ a.status # "success"

\* C11: every failure of every operation is caught in the handler and answered
\* with a payload whose status is "failed" and that carries a message; no
\* request is left without an answer by an escaping exception.
C11_FailuresAnswered ==
    req.op # "none" =>
        /\ resp # <<>>
        /\ \A k \in 1..Len(resp) : IsFailure(resp[k]) => resp[k].status = "failed"

----------------------------------------------------------------------------
(* C12 *)

\* the documents of the record store that carry the title
Titled(title) == {i \in 1..Len(db) : db[i].title = ToBson(title)}

\* the createDomain calls whose lookup found the title unused and that have returned
PassedLookup ==
    {c \in DOMAIN calls : calls[c].op = "create" /\ calls[c].free /\ Label(calls[c]) = "end"}

\* C12: concurrent Creates with the same unused title can both pass the title
\* lookup before either inserts; every Create that passed the lookup answers
\* success and inserts its document, so the record store ends with one
\* document of that title for each of them.
C12_ConcurrentCreatesBothInsert ==
    /\ \A c \in PassedLookup :
           /\ calls[c].resp = Success("Domain created successfully.")
           /\ calls[c].wrote
    /\ \A c1, c2 \in PassedLookup :
           (/\ c1 # c2
            /\ calls[c1].r.title = calls[c2].r.title
            /\ \A c \in DOMAIN calls : calls[c].op # "create" => ~calls[c].wrote) =>
               Cardinality(Titled(calls[c1].r.title)) >= 2

\* two Creates of title b have both answered success and both documents are stored
C12_Witness ==
    /\ Len(calls) >= 2
    /\ {1, 2} \subseteq PassedLookup
    /\ calls[1].r.title = <<"b">>
    /\ calls[2].r.title = <<"b">>
    /\ calls[1].resp = Success("Domain created successfully.")
    /\ calls[2].resp = Success("Domain created successfully.")
    /\ Cardinality(Titled(<<"b">>)) = 2

----------------------------------------------------------------------------
(* C13 *)

\* the removal of the file at p fails during a Delete that refuses the slots in fail
RemovalFails(d, p, refused) == ~OnDisk(d, p) \/ refused

\* C13: when the removal of the mapper file or of the image fails during a
\* Delete, the answer is a failure and the document stays in the record store
\* unchanged.
C13_DeleteFailureKeepsDocument ==
    [][req'.op = "delete" =>
        \A id \in DocIds(db), fail \in Fails :
            (/\ IsRequest("delete", id)
             /\ deleteDomain(id, fail)
             /\ \/ RemovalFails(disk, DocOf(db, id).mapperFile_Url, "file" \in fail)
                \/ RemovalFails(disk, DocOf(db, id).imagePath, "image" \in fail)) =>
                /\ Len(resp') = 1
                /\ resp'[1].status = "failed"
                /\ db' = db]_vars

\* a Delete was refused the removal of a file and the document is still stored
C13_Witness ==
    /\ req.op = "delete"
    /\ req.id \in DocIds(db)
    /\ resp = Failed("Error deleting file: EPERM")

----------------------------------------------------------------------------
(* C14 *)

\* C14: Delete tries to remove both files whatever the outcome of the first
\* attempt: when the removal of the mapper file fails and the image is present
\* and removable, the image is off disk after the failed Delete.
C14_BothRemovalsAttempted ==
    [][req'.op = "delete" =>
        \A id \in DocIds(db), fail \in Fails :
            (/\ IsRequest("delete", id)
             /\ deleteDomain(id, fail)
             /\ RemovalFails(disk, DocOf(db, id).mapperFile_Url, "file" \in fail)
             /\ ~RemovalFails(disk, DocOf(db, id).imagePath, "image" \in fail)) =>
                /\ resp'[1].status = "failed"
                /\ ~OnDisk(disk', DocOf(db, id).imagePath)]_vars

\* a failed Delete left the mapper file and removed the image
C14_Witness ==
    /\ req.op = "delete"
    /\ req.id \in DocIds(db)
    /\ resp = Failed("Error deleting file: EPERM")
    /\ OnDisk(disk, DocOf(db, req.id).mapperFile_Url)
    /\ ~OnDisk(disk, DocOf(db, req.id).imagePath)

----------------------------------------------------------------------------
(* C15 *)

\* the files multer hands to updateDomain for the request r
FileOf(r) == multerFile(r.title, "file", r.file)
ImageOf(r) == multerFile(r.title, "image", r.image)

\* the call k has sent or decided on answers, all of them failures
AnswersFailure(k) ==
    /\ k.out \o k.resp # <<>>
    /\ \A i \in 1..Len(k.out \o k.resp) : (k.out \o k.resp)[i].status = "failed"

----------------------------------------------------------------------------
(* C16 *)

\* C16: from a state in which the domain's recorded mapper file and image are
\* on disk, after an Update of that domain that answers failure the document's
\* mapperFile_Url and imagePath each still name a file on disk.
C16_FailedUpdateKeepsFiles ==
    [][(/\ req'.op = "update"
        /\ served' = served + 1
        /\ req'.id \in DocIds(db)
        /\ OnDisk(disk, DocOf(db, req'.id).mapperFile_Url)
        /\ OnDisk(disk, DocOf(db, req'.id).imagePath)
        /\ Len(resp') = 1
        /\ resp'[1].status = "failed") =>
            /\ req'.id \in DocIds(db')
            /\ OnDisk(disk', DocOf(db', req'.id).mapperFile_Url)
            /\ OnDisk(disk', DocOf(db', req'.id).imagePath)]_vars

----------------------------------------------------------------------------
(* C17 *)

\* C17: a successful Update addressed to id modifies only the document with
\* that id; every other document is the same after the request as before,
\* whatever title the request supplies.
C17_OnlyAddressedDocument ==
    [][(/\ req'.op = "update"
        /\ served' = served + 1
        /\ req'.id \in DocIds(db)
        /\ resp' = Success("Domain updated successfully.")) =>
            /\ Len(db') = Len(db)
            /\ \A k \in 1..Len(db) : db[k]._id # req'.id => db'[k] = db[k]]_vars

----------------------------------------------------------------------------
(* C18 *)

\* the file at the recorded path p is on disk after the step, with the content it had
Kept(p) ==
    OnDisk(disk, p) => OnDisk(disk', p) /\ disk'[FullPath(p)] = disk[FullPath(p)]

\* C18: a Create, Update or Delete addressed to one domain removes or
\* overwrites no file recorded by another domain's document.
C18_OtherDomainsFilesKept ==
    [][(req'.op \in {"create", "update", "delete"} /\ served' = served + 1) =>
        \A k \in 1..Len(db) :
            db[k]._id # req'.id =>
                Kept(db[k].mapperFile_Url) /\ Kept(db[k].imagePath)]_vars

----------------------------------------------------------------------------
(* C19 *)

\* the request r supplies a mapper file whose base name differs from the stored one
MapperSuperseded(r, domain) ==
    /\ Accepted(r.file)
    /\ basename(FileOf(r).filename, extname(FileOf(r).filename)) # domain.fileName

\* the request r supplies an image whose base name differs from the stored one
ImageSuperseded(r, domain) ==
    /\ Accepted(r.image)
    /\ basename(ImageOf(r).filename, extname(ImageOf(r).filename))
         # basename(domain.imagePath, extname(domain.imagePath))

\* C19: an Update deletes a stored file of the domain only when the request
\* supplies a file for that slot whose base name differs from the stored one;
\* with no files, or files of equal base names, the files at the domain's
\* recorded paths stay on disk.
C19_DeletesOnlySuperseded ==
    [][req'.op = "update" =>
        \A r \in UpdateRequests :
            (IsUpdate(r) /\ r.id \in DocIds(db)) =>
                LET domain == DocOf(db, r.id)
                IN  /\ (~MapperSuperseded(r, domain) /\ OnDisk(disk, domain.mapperFile_Url))
                          => OnDisk(disk', domain.mapperFile_Url)
                    /\ (~ImageSuperseded(r, domain) /\ OnDisk(disk, domain.imagePath))
                          => OnDisk(disk', domain.imagePath)]_vars

----------------------------------------------------------------------------
(* C20 *)

\* C20: in Create, Update and Delete the response goes out only after every
\* file write and file removal of the request has completed or failed: a call
\* that has answered changes the file store no more.
C20_ResponseAfterFileOperations ==
    [][\A c \in DOMAIN calls :
          calls[c].resp # <<>> => (calls'[c] = calls[c] \/ disk' = disk)]_vars

\* a Delete has removed both files and the document, and then answered
C20_Witness ==
    \E c \in DOMAIN calls :
        /\ calls[c].op = "delete"
        /\ Label(calls[c]) = "end"
        /\ calls[c].resp = DeleteSuccess
        /\ Len(calls[c].results) = 2
        /\ \A i \in 1..2 : calls[c].results[i].status = "success"

----------------------------------------------------------------------------
(* C21 *)

\* C21: every request to any of the seven operations receives exactly one
\* response: no handler path ends without a response and none sends a second.
C21_ExactlyOneResponse == req.op # "none" => Len(resp) = 1

====
